---- MODULE Spec2Model ----
(***************************************************************************)
(* geoscreenshot: the acquisition-and-sampling pipeline of src/cli.ts.     *)
(*                                                                         *)
(*   Spec      one run of main(): the key and map file checks, the         *)
(*             Fisher-Yates shuffle of the candidate indices, then the     *)
(*             capture loop (API or browser backend),                      *)
(*             the write of each success, and the final shortfall report.  *)
(*   SpecSize  the pure size resolution (computeEffectiveScale and         *)
(*             computeLogicalSize) applied to inputs drawn from bounded    *)
(*             sets.                                                       *)
(*   SpecBrowser  one call of captureStreetViewWithBrowser (browser.ts)    *)
(*             with the caller's useEmbed and key, consent handling and    *)
(*             readiness detection included.                               *)
(*   SpecShuffle  shuffleIndices applied to every length 0..MaxShuffle.    *)
(*   SpecFair  Spec with every pending step of the run eventually taken.   *)
(*                                                                         *)
(* JavaScript numbers are modelled as records [k, v]: k = "fin" is the     *)
(* integer v; the other kinds are the IEEE-754 values the size arithmetic  *)
(* can produce (-0, NaN, +Infinity, -Infinity) and `undefined`.            *)
(***************************************************************************)
EXTENDS Integers, Sequences, FiniteSets, TLC

\* ------------------------------------------------------------------ bounds
MaxN == 3          \* items in the map file's array: 0..MaxN
MaxCount == 2      \* --count values tried: 0..MaxCount (and the option omitted)
SizeDelta == 2     \* half-width of the windows of requested dimensions
MaxHint == 3       \* finite scale hints tried: 0..MaxHint
MaxButtons == 2    \* buttons on the consent page: 0..MaxButtons
MaxShuffle == 5    \* lengths shuffleIndices is applied to on its own: 0..MaxShuffle

\* ------------------------------------------------------- program constants
Cap == 640             \* computeLogicalSize: cap = 640
DefaultCount == 2      \* main: count defaults to 2
DefaultScale == 2      \* main: scale defaults to 2
FallbackWidth == 1920  \* main: parseSize fallback { width: 1920, height: 1080 }
FallbackHeight == 1080

\* -------------------------------------------------------- JavaScript numbers
Num(n) == [k |-> "fin", v |-> n]
NegZero == [k |-> "negzero", v |-> 0]
NaN == [k |-> "nan", v |-> 0]
PosInf == [k |-> "posinf", v |-> 0]
NegInf == [k |-> "neginf", v |-> 0]
Undefined == [k |-> "undef", v |-> 0]

\* Number.isFinite(x)
IsFinite(x) == x.k \in {"fin", "negzero"}

\* x > n for a JavaScript number x and an integer n (NaN compares false)
Gt(x, n) ==
    CASE x.k = "fin" -> x.v > n
      [] x.k = "negzero" -> 0 > n
      [] x.k = "posinf" -> TRUE
      [] OTHER -> FALSE

\* floor of the rational a/b, b # 0
FloorDiv(a, b) ==
    LET n == IF b < 0 THEN -a ELSE a
        d == IF b < 0 THEN -b ELSE b
    IN  IF n >= 0 THEN n \div d ELSE -((-n + d - 1) \div d)

\* Math.floor(x / scale) for a finite x and scale in {1, 2}; -0 / scale is -0
FloorOver(x, scale) ==
    IF x.k = "fin" THEN Num(FloorDiv(x.v, scale)) ELSE x

\* cap / x as a ratio: the rational cap/d, or an infinity when x is a zero
CapOver(cap, x) ==
    CASE x.k = "fin" /\ x.v # 0 -> [k |-> "rat", d |-> x.v]
      [] x.k = "fin" /\ x.v = 0 -> [k |-> "posinf", d |-> 0]
      [] OTHER -> [k |-> "neginf", d |-> 0]

\* Math.min of two such ratios (cap > 0)
MinRatio(r, s) ==
    CASE r.k = "neginf" \/ s.k = "neginf" -> [k |-> "neginf", d |-> 0]
      [] r.k = "posinf" -> s
      [] s.k = "posinf" -> r
      [] r.d < 0 /\ s.d > 0 -> r
      [] s.d < 0 /\ r.d > 0 -> s
      [] OTHER -> IF r.d >= s.d THEN r ELSE s

\* The pairs <<a, d>> of the model's dimensions for which the double
\* a * (640 / d) is just below the integer a*640/d, so that Math.floor
\* returns one less than the exact quotient (IEEE-754 round-to-nearest;
\* complete for dimensions within SizeDelta <= 5 of 0, 640 and 1280 and
\* for the sample dimensions).
RoundsBelow ==
    { <<319, 319>>, <<319, 638>>, <<319, 1276>>, <<638, 319>>, <<638, 638>>,
      <<638, 1276>>, <<1077, 1077>>, <<1276, 319>>, <<1276, 638>>,
      <<1276, 1276>> }

\* Math.floor(x * ratio)
MulFloor(cap, x, r) ==
    CASE r.k = "rat" /\ x.k = "fin" ->
            Num(FloorDiv(x.v * cap, r.d) - (IF <<x.v, r.d>> \in RoundsBelow THEN 1 ELSE 0))
      [] r.k = "rat" -> IF r.d > 0 THEN x ELSE Num(0)
      [] x.k = "fin" /\ x.v > 0 -> IF r.k = "posinf" THEN PosInf ELSE NegInf
      [] x.k = "fin" /\ x.v < 0 -> IF r.k = "posinf" THEN NegInf ELSE PosInf
      [] OTHER -> NaN

\* Math.max(1, x)
Max1(x) ==
    CASE x.k = "fin" -> Num(IF x.v > 1 THEN x.v ELSE 1)
      [] x.k \in {"negzero", "neginf"} -> Num(1)
      [] OTHER -> x

\* ------------------------------------------------------------- SizeResolver
computeEffectiveScaleCapExclusive(req, hint) ==
    LET candidate == IF IsFinite(hint) THEN hint
                     ELSE IF Gt(req.width, Cap - 1) \/ Gt(req.height, Cap - 1) THEN Num(2)
                     ELSE Num(1)
    IN  IF candidate = Num(1) THEN 1 ELSE 2

computeEffectiveScaleHintAtMostOne(req, hint) ==
    LET candidate == IF IsFinite(hint) THEN hint
                     ELSE IF Gt(req.width, Cap) \/ Gt(req.height, Cap) THEN Num(2)
                     ELSE Num(1)
    IN  IF ~Gt(candidate, 1) THEN 1 ELSE 2

computeEffectiveScale(req, hint) ==
    LET candidate == IF IsFinite(hint) THEN hint
                     ELSE IF Gt(req.width, Cap) \/ Gt(req.height, Cap) THEN Num(2)
                     ELSE Num(1)
    IN  IF candidate = Num(1) THEN 1 ELSE 2

computeLogicalSize(req, scale, cap) ==
    LET lw == FloorOver(req.width, scale)
        lh == FloorOver(req.height, scale)
        ratio == MinRatio(CapOver(cap, lw), CapOver(cap, lh))
        capped == Gt(lw, cap) \/ Gt(lh, cap)
        w2 == IF capped THEN MulFloor(cap, lw, ratio) ELSE lw
        h2 == IF capped THEN MulFloor(cap, lh, ratio) ELSE lh
    IN  [width |-> Max1(w2), height |-> Max1(h2)]

\* createImageWithApi lines 249-250: the scale and logical size of a request
resolveSize(req, hint) ==
    LET s == computeEffectiveScale(req, hint)
    IN  [scale |-> s, logical |-> computeLogicalSize(req, s, Cap)]

\* ---------------------------------------------------------------- the state
VARIABLES
    hasKey,         \* a key is given (main: --key or the environment; capture: params.key)
    mapState,       \* the map file: "unreadable", "badjson", "notarray", "array"
    itemsLeft,      \* parseMapFile: items of the array asCoordinates has not seen yet
    item,           \* parseMapFile: the item asCoordinates saw last (NoItem: none)
    N,              \* allCoords.length: the coordinates accepted so far
    count,          \* main: count = max(1, Number(args.count)), default 2
    mode,           \* args.mode: "browser" or the API backend
    argScale,       \* args.scale: Undefined when omitted, NaN when not numeric
    scaleArg,       \* the scaleArg handed to createImageWithApi / the tested hint
    sharpInstalled, \* whether import("sharp") succeeds in this runtime
    hasPrefix,      \* main: namePrefix is not null (--name given and not empty)
    useEmbed,       \* captureStreetViewWithBrowser: params.useEmbed is truthy
    indices,        \* shuffleIndices: the array being shuffled, then visited
    si,             \* shuffleIndices: the loop variable i
    pc,             \* position of main
    pos,            \* number of elements of indices the for-of loop has taken
    idx,            \* the index of the attempt in progress (-1: none)
    requested,      \* the attempt's requested size
    resolved,       \* the attempt's effective scale and logical size
    successes,      \* main: successes
    outputs,        \* main: outputs, as <<candidate index, base name>>
    browserOpen,    \* a puppeteer browser is launched and close() was not called
    pendingErr,     \* the error thrown inside the browser try block, if any
    target,         \* the URL the latest browser attempt built: "embed" or "pano"
    probe,          \* tryClickConsent: selectors of the list already probed
    buttons,        \* tryClickConsent: buttons of the fallback list still to test
    clicks,         \* tryClickConsent: clicks that succeeded in the latest attempt
    exitMsg,        \* which exitWithError ended the process ("none": none)
    attempted,      \* history: candidate indices in the order attempts began
    nFailed,        \* history: attempts that did not end in a recorded output
    lastErr,        \* history: the error of the latest failed attempt ("none": none yet)
    metaReq,        \* history: indices a metadata request was issued for
    metaOK,         \* history: indices whose metadata status was "OK"
    imageReq,       \* history: indices an image request was issued for
    reports         \* history: number of shortfall messages printed

vars == << hasKey, mapState, itemsLeft, item, N, count, mode, argScale, scaleArg,
           sharpInstalled, hasPrefix, useEmbed, indices, si, pc, pos, idx,
           requested, resolved, successes, outputs, browserOpen, pendingErr,
           target, probe, buttons, clicks, exitMsg, attempted, nFailed, lastErr,
           metaReq, metaOK, imageReq, reports >>

config == << hasKey, mapState, count, mode, argScale, scaleArg, sharpInstalled,
             hasPrefix, useEmbed >>
input == << itemsLeft, item, N >>
surface == << target, probe, buttons, clicks >>
history == << attempted, nFailed, lastErr, metaReq, metaOK, imageReq, reports >>

Size(w, h) == [width |-> w, height |-> h]
NoSize == Size(Undefined, Undefined)
NoResolved == [scale |-> 0, logical |-> NoSize]

\* requested sizes of a run's candidates (coords.size || size, through parseSize)
RunSizes ==
    { Size(Num(FallbackWidth), Num(FallbackHeight)), Size(Num(Cap), Num(480)),
      Size(Num(0), Num(0)) }

\* args.scale as given on the command line
ArgScales == { Undefined, Num(1), Num(2), NaN }

\* main line 295
mainCount(argCount) ==
    IF argCount.k = "undef" THEN DefaultCount
    ELSE IF argCount.v > 1 THEN argCount.v ELSE 1

\* main lines 298 and 340
mainScaleArg(arg) ==
    LET scale == IF arg.k = "undef" THEN Num(DefaultScale) ELSE arg
    IN  IF IsFinite(scale) THEN scale ELSE Undefined

\* the errors spec section 7 lists as per-attempt errors
PerAttemptErrors == { "UnavailableImagery", "TransportError", "RenderTimeout", "CodecError" }

\* the exitWithError calls of main and parseMapFile that precede the loop
ConfigErrors ==
    { "MissingKey", "MapUnreadable", "InvalidJSON", "NotArray", "InvalidCoordinate",
      "NoValidCoordinates" }

\* ------------------------------------------------- the candidate source
\* an item of the parsed array: an object with lat and lng (or a pair), or
\* anything else; lat and lng are JSON values, null among them
Null == [k |-> "null", v |-> 0]
Coord(lat, lng) == [shape |-> "coords", lat |-> lat, lng |-> lng]
Junk == [shape |-> "other", lat |-> Undefined, lng |-> Undefined]
NoItem == [shape |-> "none", lat |-> Undefined, lng |-> Undefined]

ItemValues ==
    { Coord(Num(-90), Num(180)), Coord(Num(91), Num(0)), Coord(Num(0), Num(-181)),
      Coord(NaN, Num(0)), Coord(Null, Num(0)), Junk }

\* Number(x) for a JSON value: null is 0, undefined is NaN
ToNumber(x) ==
    CASE x.k = "null" -> Num(0)
      [] x.k = "undef" -> NaN
      [] OTHER -> x

\* validateLatLng lines 71-75: TRUE when it returns, FALSE when it exits
validateLatLngLatAsLng(latString, lngString) ==
    LET lat == ToNumber(latString)
        lng == ToNumber(lngString)
    IN  /\ IsFinite(lat) /\ lat.v >= -180 /\ lat.v <= 180
        /\ IsFinite(lng) /\ lng.v >= -180 /\ lng.v <= 180
validateLatLng(latString, lngString) ==
    LET lat == ToNumber(latString)
        lng == ToNumber(lngString)
    IN  /\ IsFinite(lat) /\ lat.v >= -90 /\ lat.v <= 90
        /\ IsFinite(lng) /\ lng.v >= -180 /\ lng.v <= 180

\* ------------------------------------------------------------ shuffleIndices
\* line 215: Array.from({ length }, (_, i) => i)
initialIndicesFromOne(length) == [i \in 1..length |-> i]
initialIndices(length) == [i \in 1..length |-> i - 1]

\* lines 218-220: exchange indices[i] and indices[j] (0-based positions)
SwapLosingTmp(s, i, j) == [s EXCEPT ![i + 1] = s[j + 1]]
Swap(s, i, j) == [s EXCEPT ![i + 1] = s[j + 1], ![j + 1] = s[i + 1]]

\* ------------------------------------------------------------ the start-up
\* no attempt has begun: the loop's variables and the history are untouched
Idle ==
    /\ pos = 0
    /\ idx = -1
    /\ successes = 0
    /\ outputs = << >>
    /\ browserOpen = FALSE
    /\ pendingErr = "none"
    /\ target = "none"
    /\ probe = 0
    /\ buttons = 0
    /\ clicks = 0
    /\ exitMsg = "none"
    /\ attempted = << >>
    /\ nFailed = 0
    /\ lastErr = "none"
    /\ metaReq = {}
    /\ metaOK = {}
    /\ imageReq = {}
    /\ reports = 0

Init ==
    /\ hasKey \in BOOLEAN
    /\ mapState \in {"unreadable", "badjson", "notarray", "array"}
    /\ itemsLeft \in 0..MaxN
    /\ mapState # "array" => itemsLeft = 0
    /\ item = NoItem
    /\ N = 0
    /\ \E argCount \in {Undefined} \cup {Num(c) : c \in 0..MaxCount} :
          count = mainCount(argCount)
    /\ mode \in {"api", "browser"}
    /\ argScale \in ArgScales
    /\ scaleArg = mainScaleArg(argScale)
    /\ sharpInstalled \in BOOLEAN
    /\ hasPrefix \in BOOLEAN
    /\ useEmbed = TRUE
    /\ indices = << >>
    /\ si = 0
    /\ pc = "start"
    /\ requested = NoSize
    /\ resolved = NoResolved
    /\ Idle

\* exitWithError before the loop: the process ends there
Reject(msg) ==
    /\ pc' = "exited"
    /\ exitMsg' = msg
    /\ UNCHANGED << itemsLeft, N, indices, si >>

\* main lines 287-290
CheckKey ==
    /\ pc = "start"
    /\ IF hasKey
         THEN pc' = "readmap" /\ UNCHANGED exitMsg
         ELSE pc' = "exited" /\ exitMsg' = "MissingKey"
    /\ UNCHANGED << config, input, indices, si, pos, idx, requested, resolved,
                    successes, outputs, browserOpen, pendingErr, surface, history >>

\* parseMapFile lines 82-96
ReadMap ==
    /\ pc = "readmap"
    /\ CASE mapState = "unreadable" -> pc' = "exited" /\ exitMsg' = "MapUnreadable"
         [] mapState = "badjson" -> pc' = "exited" /\ exitMsg' = "InvalidJSON"
         [] mapState = "notarray" -> pc' = "exited" /\ exitMsg' = "NotArray"
         [] OTHER -> pc' = "items" /\ UNCHANGED exitMsg
    /\ UNCHANGED << config, input, indices, si, pos, idx, requested, resolved,
                    successes, outputs, browserOpen, pendingErr, surface, history >>

\* parseMapFile lines 97-114: asCoordinates on the next item of the array
ParseItem ==
    /\ pc = "items"
    /\ itemsLeft > 0
    /\ \E it \in ItemValues :
          /\ item' = it
          /\ IF it.shape = "coords" /\ ~validateLatLng(it.lat, it.lng)
               THEN Reject("InvalidCoordinate")
               ELSE /\ itemsLeft' = itemsLeft - 1
                    /\ N' = IF it.shape = "coords" THEN N + 1 ELSE N
                    /\ UNCHANGED << indices, si, pc, exitMsg >>
    /\ UNCHANGED << config, pos, idx, requested, resolved, successes, outputs,
                    browserOpen, pendingErr, surface, history >>

\* parseMapFile lines 114-118, main lines 294-309, shuffleIndices line 215
ParseDone ==
    /\ pc = "items"
    /\ itemsLeft = 0
    /\ item' = NoItem
    /\ IF N = 0
         THEN Reject("NoValidCoordinates")
         ELSE /\ pc' = "shuffle"
              /\ indices' = initialIndices(N)
              /\ si' = N - 1
              /\ UNCHANGED << itemsLeft, N, exitMsg >>
    /\ UNCHANGED << config, pos, idx, requested, resolved, successes, outputs,
                    browserOpen, pendingErr, surface, history >>

\* lines 216-221: one iteration, j = floor(random * (i + 1))
ShuffleStep ==
    /\ pc = "shuffle"
    /\ si > 0
    /\ \E j \in 0..si : indices' = Swap(indices, si, j)
    /\ si' = si - 1
    /\ UNCHANGED << config, input, pc, pos, idx, requested, resolved, successes,
                    outputs, browserOpen, pendingErr, surface, exitMsg, history >>

\* line 222, then main lines 309-313
ShuffleReturn ==
    /\ pc = "shuffle"
    /\ si <= 0
    /\ pc' = "loop"
    /\ UNCHANGED << config, input, indices, si, pos, idx, requested, resolved,
                    successes, outputs, browserOpen, pendingErr, surface, exitMsg,
                    history >>

\* ------------------------------------------------------------ the main loop
\* line 315
TargetReachedLate == successes > count
TargetReached == successes >= count

\* the catch block of main, lines 355-360: the attempt is skipped
Catch(kind) ==
    /\ pc' = "loop"
    /\ idx' = -1
    /\ requested' = NoSize
    /\ resolved' = NoResolved
    /\ pendingErr' = "none"
    /\ nFailed' = nFailed + 1
    /\ lastErr' = kind
    /\ UNCHANGED << successes, outputs, exitMsg, reports >>

\* exitWithError inside an attempt: the process ends there
Exit(msg, kind) ==
    /\ pc' = "exited"
    /\ exitMsg' = msg
    /\ nFailed' = nFailed + 1
    /\ lastErr' = kind
    /\ UNCHANGED << idx, requested, resolved, pendingErr, successes, outputs, reports >>

\* line 315: break
LoopBreak ==
    /\ pc = "loop"
    /\ pos < Len(indices)
    /\ TargetReached
    /\ pc' = "after"
    /\ UNCHANGED << config, input, surface, indices, si, pos, idx, requested, resolved, successes,
                    outputs, browserOpen, pendingErr, exitMsg, history >>

\* line 314: the iterator is exhausted
LoopExhausted ==
    /\ pc = "loop"
    /\ pos >= Len(indices)
    /\ pc' = "after"
    /\ UNCHANGED << config, input, surface, indices, si, pos, idx, requested, resolved, successes,
                    outputs, browserOpen, pendingErr, exitMsg, history >>

\* lines 314-324 (and 248, 167-168 for the API backend): the next index is
\* taken and its capture begins.  allCoords[idx] is always defined, so the
\* continue of line 317 is never taken.  A candidate's size (coords.size ||
\* size, line 318) is drawn when the candidate is visited.
StartAttempt ==
    /\ pc = "loop"
    /\ pos < Len(indices)
    /\ ~TargetReached
    /\ pos' = pos + 1
    /\ idx' = indices[pos + 1]
    /\ attempted' = Append(attempted, indices[pos + 1])
    /\ \E sz \in RunSizes : requested' = sz
    /\ IF mode = "browser"
         THEN pc' = "launch" /\ metaReq' = metaReq
         ELSE pc' = "meta" /\ metaReq' = metaReq \cup {indices[pos + 1]}
    /\ UNCHANGED << config, input, surface, indices, si, resolved, successes, outputs, browserOpen,
                    pendingErr, exitMsg, nFailed, lastErr, metaOK, imageReq,
                    reports >>

\* -------------------------------------------------- the API backend
\* ensureMetadataAvailable line 170: the status that lets the attempt go on
StatusIgnored(status) == TRUE
StatusAccepted(status) == status = "OK"

\* the outcomes of the metadata request: a status of the JSON body ("UNKNOWN":
\* no status field), a rejected httpGet, a body JSON.parse throws on
MetadataOutcomes == { "OK", "ZERO_RESULTS", "UNKNOWN", "transport", "badjson" }

\* createImageWithApi line 248 (ensureMetadataAvailable, lines 168-173) and,
\* when it returns, lines 249-270 up to the image request being issued
MetadataResponse ==
    /\ pc = "meta"
    /\ \E out \in MetadataOutcomes :
          CASE out = "transport" ->
                  Catch("TransportError") /\ UNCHANGED << metaOK, imageReq >>
            [] out = "badjson" ->
                  Catch("ParseError") /\ UNCHANGED << metaOK, imageReq >>
            [] OTHER ->
                  IF StatusAccepted(out)
                    THEN /\ metaOK' = IF out = "OK" THEN metaOK \cup {idx} ELSE metaOK
                         /\ resolved' = resolveSize(requested, scaleArg)
                         /\ imageReq' = imageReq \cup {idx}
                         /\ pc' = "image"
                         /\ UNCHANGED << idx, requested, pendingErr, successes, outputs,
                                         exitMsg, nFailed, lastErr, reports >>
                    ELSE /\ Exit("NoStreetView", "UnavailableImagery")
                         /\ UNCHANGED << metaOK, imageReq >>
    /\ UNCHANGED << config, input, surface, indices, si, pos, browserOpen, attempted, metaReq >>

\* createImageWithApi lines 270-271 and 278: the download ends
ImageResponse ==
    /\ pc = "image"
    /\ \/ /\ pc' = IF Gt(requested.width, 0) /\ Gt(requested.height, 0)
                     THEN "sharp" ELSE "write"
          /\ UNCHANGED << idx, requested, resolved, pendingErr, successes, outputs,
                          exitMsg, nFailed, lastErr, reports >>
       \/ Catch("TransportError")
    /\ UNCHANGED << config, input, surface, indices, si, pos, browserOpen, attempted, metaReq,
                    metaOK, imageReq >>

\* createImageWithApi lines 272-276: getSharpOrThrow (lines 36-47), then the
\* resize and re-encoding
PostProcess ==
    /\ pc = "sharp"
    /\ IF ~sharpInstalled
         THEN Exit("SharpMissing", "SharpMissing")
         ELSE \/ /\ pc' = "write"
                 /\ UNCHANGED << idx, requested, resolved, pendingErr, successes,
                                 outputs, exitMsg, nFailed, lastErr, reports >>
              \/ Catch("CodecError")
    /\ UNCHANGED << config, input, surface, indices, si, pos, browserOpen, attempted, metaReq,
                    metaOK, imageReq >>

\* ------------------------------------------- the browser backend, part_000
\* line 80: the URL the page is sent to
navigationTarget(embed, key) == IF embed /\ key THEN "embed" ELSE "pano"

\* lines 43-50: the selectors tryClickConsent probes
NumSelectors == 6

\* line 82: puppeteer.launch, outside the try block (the URL is built first)
BrowserLaunch ==
    /\ pc = "launch"
    /\ target' = navigationTarget(useEmbed, hasKey)
    /\ probe' = 0
    /\ buttons' = 0
    /\ clicks' = 0
    /\ \/ /\ browserOpen' = TRUE
          /\ pc' = "b_page"
          /\ UNCHANGED << idx, requested, resolved, pendingErr, successes, outputs,
                          exitMsg, nFailed, lastErr, reports >>
       \/ Catch("RenderError") /\ UNCHANGED browserOpen
    /\ UNCHANGED << config, input, indices, si, pos, attempted, metaReq, metaOK,
                    imageReq >>

\* a step of the try block: it goes on to `next`, or throws one of `errs`
\* and control passes to the finally block
TryStepNoFinally(next, errs) ==
    /\ \/ /\ pc' = next
          /\ UNCHANGED << idx, requested, resolved, pendingErr, successes, outputs,
                          exitMsg, nFailed, lastErr, reports >>
       \/ \E e \in errs : Catch(e)
    /\ UNCHANGED << config, input, indices, si, pos, browserOpen, surface, attempted,
                    metaReq, metaOK, imageReq >>
TryStep(next, errs) ==
    /\ \/ pc' = next /\ UNCHANGED pendingErr
       \/ \E e \in errs : pc' = "b_close" /\ pendingErr' = e
    /\ UNCHANGED << config, input, indices, si, pos, idx, requested, resolved,
                    successes, outputs, browserOpen, surface, exitMsg, history >>

\* lines 84-85: newPage and setViewport
BrowserNewPage ==
    /\ pc = "b_page"
    /\ TryStep("b_goto", {"RenderError"})

\* line 86: page.goto with its 60 s timeout; line 87 selects what follows
BrowserGoto ==
    /\ pc = "b_goto"
    /\ TryStep(IF useEmbed THEN "b_settle" ELSE "b_consent",
               {"TransportError", "RenderTimeout"})

\* a step of tryClickConsent: nothing it does can throw out of the function
ConsentStep(next) ==
    /\ pc' = next
    /\ UNCHANGED << config, input, indices, si, pos, idx, requested, resolved,
                    successes, outputs, browserOpen, pendingErr, target, exitMsg,
                    history >>

\* tryClickConsent lines 51-60: one selector of the list; page.$ or click
\* throwing is caught and the next selector is probed
ConsentProbe ==
    /\ pc = "b_consent"
    /\ probe < NumSelectors
    /\ probe' = probe + 1
    /\ UNCHANGED buttons
    /\ \E out \in {"absent", "throws", "clickthrows", "clicked"} :
          IF out = "clicked"
            THEN clicks' = clicks + 1 /\ ConsentStep("b_settle")
            ELSE clicks' = clicks /\ ConsentStep("b_consent")

\* tryClickConsent line 62: page.$$("button") of the fallback
ConsentListButtons ==
    /\ pc = "b_consent"
    /\ probe = NumSelectors
    /\ UNCHANGED << probe, clicks >>
    /\ \/ \E n \in 0..MaxButtons : buttons' = n /\ ConsentStep("b_buttons")
       \/ buttons' = 0 /\ ConsentStep("b_settle")

\* tryClickConsent lines 63-69: one button of the fallback list; evaluate or
\* click throwing leaves the loop through the catch of line 71
ConsentButton ==
    /\ pc = "b_buttons"
    /\ buttons > 0
    /\ UNCHANGED probe
    /\ \E out \in {"nomatch", "throws", "clickthrows", "clicked"} :
          CASE out = "nomatch" ->
                  buttons' = buttons - 1 /\ clicks' = clicks /\ ConsentStep("b_buttons")
            [] out = "clicked" ->
                  buttons' = buttons - 1 /\ clicks' = clicks + 1 /\ ConsentStep("b_settle")
            [] OTHER ->
                  buttons' = buttons /\ clicks' = clicks /\ ConsentStep("b_settle")

\* tryClickConsent lines 63 and 72: the fallback list is exhausted
ConsentButtonsDone ==
    /\ pc = "b_buttons"
    /\ buttons = 0
    /\ UNCHANGED << probe, buttons, clicks >>
    /\ ConsentStep("b_settle")

\* lines 89 and 94: sleep(1500)
BrowserSettle ==
    /\ pc = "b_settle"
    /\ TryStep(IF useEmbed THEN "b_shot" ELSE "b_ready", {})

\* lines 90-92: waitForSelector("canvas") inside its own try/catch
BrowserReadyStrict ==
    /\ pc = "b_ready"
    /\ TryStep("b_shot", {"RenderTimeout"})
BrowserReady ==
    /\ pc = "b_ready"
    /\ TryStep("b_shot", {})

\* lines 96-97: the screenshot; returning also passes through finally
BrowserScreenshot ==
    /\ pc = "b_shot"
    /\ TryStep("b_close", {"RenderError"})

\* lines 98-100: finally; browser.close() may itself throw
BrowserClose ==
    /\ pc = "b_close"
    /\ browserOpen' = FALSE
    /\ \/ IF pendingErr = "none"
            THEN /\ pc' = "write"
                 /\ UNCHANGED << idx, requested, resolved, pendingErr, successes,
                                 outputs, exitMsg, nFailed, lastErr, reports >>
            ELSE Catch(pendingErr)
       \/ Catch("RenderError")
    /\ UNCHANGED << config, input, surface, indices, si, pos, attempted, metaReq,
                    metaOK, imageReq >>

\* ------------------------------------------------------ the write, the end
\* Date.now() values of a run
ClockValues == { 0, 1 }

\* buildBaseName line 226; coords are named by their index in allCoords
buildBaseName(prefix, coords, index, now) ==
    IF prefix THEN << "prefix", index >> ELSE << "stamp", coords, now >>

\* buildBaseName's index argument, line 350
baseIndexByAttempt == pos
baseIndex == successes + 1

\* line 353: outputs.push
pushFront(outs, entry) == << entry >> \o outs
push(outs, entry) == Append(outs, entry)

\* what main does with an error thrown by writeFileSync (inside the try)
WriteErrorFatal ==
    /\ pc' = "exited"
    /\ exitMsg' = "WriteError"
    /\ nFailed' = nFailed + 1
    /\ lastErr' = "WriteError"
    /\ UNCHANGED << idx, requested, resolved, pendingErr, successes, outputs, reports >>
OnWriteErrorCounted ==
    /\ pc' = "loop"
    /\ idx' = -1
    /\ requested' = NoSize
    /\ resolved' = NoResolved
    /\ pendingErr' = "none"
    /\ nFailed' = nFailed + 1
    /\ lastErr' = "WriteError"
    /\ successes' = successes + 1
    /\ UNCHANGED << outputs, exitMsg, reports >>
OnWriteError == Catch("WriteError")

\* lines 350-354
WriteOutput ==
    /\ pc = "write"
    /\ \/ /\ \E now \in ClockValues :
                outputs' = push(outputs, << idx, buildBaseName(hasPrefix, idx, baseIndex, now) >>)
          /\ successes' = successes + 1
          /\ pc' = "loop"
          /\ idx' = -1
          /\ requested' = NoSize
          /\ resolved' = NoResolved
          /\ UNCHANGED << pendingErr, exitMsg, nFailed, lastErr, reports >>
       \/ OnWriteError
    /\ UNCHANGED << config, input, surface, indices, si, pos, browserOpen, attempted,
                    metaReq, metaOK, imageReq >>

\* lines 363-365
ReportShortfall ==
    /\ pc = "after"
    /\ successes < count
    /\ pc' = "exited"
    /\ exitMsg' = "Shortfall"
    /\ reports' = reports + 1
    /\ UNCHANGED << config, input, surface, indices, si, pos, idx, requested, resolved,
                    successes, outputs, browserOpen, pendingErr, attempted, nFailed,
                    lastErr, metaReq, metaOK, imageReq >>

\* line 366
PrintOutputs ==
    /\ pc = "after"
    /\ ~(successes < count)
    /\ pc' = "done"
    /\ UNCHANGED << config, input, surface, indices, si, pos, idx, requested, resolved,
                    successes, outputs, browserOpen, pendingErr, exitMsg, history >>

Next ==
    \/ CheckKey
    \/ ReadMap
    \/ ParseItem
    \/ ParseDone
    \/ ShuffleStep
    \/ ShuffleReturn
    \/ LoopBreak
    \/ LoopExhausted
    \/ StartAttempt
    \/ MetadataResponse
    \/ ImageResponse
    \/ PostProcess
    \/ BrowserLaunch
    \/ BrowserNewPage
    \/ BrowserGoto
    \/ BrowserSettle
    \/ BrowserScreenshot
    \/ BrowserClose
    \/ WriteOutput
    \/ ReportShortfall
    \/ PrintOutputs

Spec == Init /\ [][Next]_vars

\* ------------------------------------------- the size resolution on its own
SampleDims == { 1077, 1080, 1920, 2160, 3840 }

DimValues ==
    { Num(n) : n \in (-SizeDelta..SizeDelta) \cup (Cap - SizeDelta..Cap + SizeDelta)
                      \cup (2 * Cap - SizeDelta..2 * Cap + SizeDelta) \cup SampleDims }
    \cup { NegZero }

\* scale hints: none, a non-finite number, the finite numbers 0..MaxHint
HintValues == { Undefined, NaN } \cup { Num(h) : h \in 0..MaxHint }

\* the inputs of a call made on its own: a key, a readable map, no options
Standalone ==
    /\ mapState = "array"
    /\ itemsLeft = 0
    /\ item = NoItem
    /\ count = 1
    /\ argScale = Undefined
    /\ sharpInstalled = TRUE
    /\ hasPrefix = FALSE
    /\ resolved = NoResolved

InitSize ==
    /\ Standalone
    /\ Idle
    /\ hasKey = TRUE
    /\ useEmbed = TRUE
    /\ N = 1
    /\ mode = "api"
    /\ scaleArg \in HintValues
    /\ indices = << 0 >>
    /\ si = 0
    /\ pc = "size"
    /\ \E w \in DimValues, h \in DimValues : requested = Size(w, h)

\* createImageWithApi lines 249-250 applied to the drawn input
ResolveSize ==
    /\ pc = "size"
    /\ resolved' = resolveSize(requested, scaleArg)
    /\ pc' = "sized"
    /\ UNCHANGED << config, input, surface, indices, si, pos, idx, requested,
                    successes, outputs, browserOpen, pendingErr, exitMsg, history >>

NextSize == ResolveSize

SpecSize == InitSize /\ [][NextSize]_vars

\* ------------------------- captureStreetViewWithBrowser called on its own
\* one call of the exported function: params.useEmbed and params.key are the
\* caller's, the candidate is index 0 of a one-candidate run
InitBrowser ==
    /\ Standalone
    /\ hasKey \in BOOLEAN
    /\ useEmbed \in BOOLEAN
    /\ N = 1
    /\ mode = "browser"
    /\ scaleArg = Undefined
    /\ indices = << 0 >>
    /\ si = 0
    /\ pc = "launch"
    /\ pos = 1
    /\ idx = 0
    /\ requested \in RunSizes
    /\ successes = 0
    /\ outputs = << >>
    /\ browserOpen = FALSE
    /\ pendingErr = "none"
    /\ target = "none"
    /\ probe = 0
    /\ buttons = 0
    /\ clicks = 0
    /\ exitMsg = "none"
    /\ attempted = << 0 >>
    /\ nFailed = 0
    /\ lastErr = "none"
    /\ metaReq = {}
    /\ metaOK = {}
    /\ imageReq = {}
    /\ reports = 0

NextBrowser ==
    \/ BrowserLaunch
    \/ BrowserNewPage
    \/ BrowserGoto
    \/ ConsentProbe
    \/ ConsentListButtons
    \/ ConsentButton
    \/ ConsentButtonsDone
    \/ BrowserSettle
    \/ BrowserReady
    \/ BrowserScreenshot
    \/ BrowserClose

SpecBrowser == InitBrowser /\ [][NextBrowser]_vars

\* ------------------------------------------------ shuffleIndices on its own
\* shuffleIndices(length) for every length 0..MaxShuffle
InitShuffle ==
    /\ Standalone
    /\ Idle
    /\ hasKey = TRUE
    /\ useEmbed = TRUE
    /\ N \in 0..MaxShuffle
    /\ mode = "api"
    /\ scaleArg = Undefined
    /\ indices = initialIndices(N)
    /\ si = N - 1
    /\ pc = "shuffle"
    /\ requested = NoSize

NextShuffle ==
    \/ ShuffleStep
    \/ ShuffleReturn

SpecShuffle == InitShuffle /\ [][NextShuffle]_vars

\* ------------------------------------------------ a run whose steps all end
\* every await of main resolves or rejects: whichever step of the run is
\* pending is eventually taken
SpecFair == Init /\ [][Next]_vars /\ WF_vars(Next)

\* =================================================================== claims
\* the run was rejected before its loop began
Rejected == pc = "exited" /\ exitMsg \in ConfigErrors
\* the run's loop began and the process has ended
Ended == pc \in {"done", "exited"} /\ ~Rejected
Range(q) == { q[i] : i \in 1..Len(q) }
AllAttempted == \A c \in 0..(N - 1) : c \in Range(attempted)

\* C1: in one run no candidate index is attempted twice: the sequence of
\* indices on which a capture attempt was started has no repeated element,
\* whatever the shuffle drew.
C1_NoIndexAttemptedTwice ==
    \A i, j \in 1..Len(attempted) : i # j => attempted[i] # attempted[j]

\* C1 witness: all three candidates of a run were attempted, in an order that
\* is not the input order.
C1_Witness ==
    /\ Len(attempted) = 3
    /\ attempted # << 0, 1, 2 >>

\* C2 (as claimed): every step that records a failed attempt with one of the
\* per-attempt errors (UnavailableImagery, TransportError, RenderTimeout,
\* CodecError), while fewer than K successes are recorded and indices remain,
\* returns to the head of the loop, from where the next index is taken; no
\* such failure ends the run.
C2_FailureNeverAborts ==
    [][ ( /\ nFailed' = nFailed + 1
          /\ lastErr' \in PerAttemptErrors
          /\ successes < count
          /\ pos < N ) => (pc' = "loop" /\ exitMsg' = "none") ]_vars

\* C3 (as claimed): whenever a run has ended with fewer than K outputs, every
\* candidate index has been attempted and the shortfall has been reported
\* exactly once; and no shortfall is reported while candidates are unvisited.
C3_ShortfallOnlyAfterExhaustion ==
    /\ (Ended /\ Len(outputs) < count) =>
          (AllAttempted /\ reports = 1 /\ exitMsg = "Shortfall")
    /\ reports > 0 => (reports = 1 /\ AllAttempted)

\* the step in which writeFileSync throws
WriteFails == pc = "write" /\ nFailed' = nFailed + 1

\* C4 (as claimed): when writing the output of a successful capture fails,
\* the run stops there with the failure surfaced: the process ends and no
\* further candidate is attempted.
C4_WriteFailureIsFatal ==
    [][ WriteFails => (pc' = "exited" /\ exitMsg' # "none") ]_vars

\* C4 (amended): a failed write is caught like any other failure of the
\* attempt: no output is recorded, the success counter is unchanged, the
\* process does not exit, and the run goes back to the head of the loop to
\* take the next index.
C4_WriteFailureIsSkipped ==
    [][ WriteFails => ( /\ pc' = "loop"
                        /\ lastErr' = "WriteError"
                        /\ outputs' = outputs
                        /\ successes' = successes
                        /\ exitMsg' = "none" ) ]_vars

\* C4 witness: after a failed write another candidate was attempted in its
\* place and the run ended fully satisfied.
C4_Witness ==
    /\ pc = "done"
    /\ lastErr = "WriteError"
    /\ nFailed = 1
    /\ Len(attempted) = count + 1

\* C5: a run with K <= N in which no attempt failed ends normally with
\* exactly K outputs after exactly K attempts, and the k-th output is that of
\* the k-th attempt (the shuffled visiting order).
C5_AllSucceed ==
    (Ended /\ nFailed = 0 /\ count <= N) =>
        /\ pc = "done"
        /\ Len(outputs) = count
        /\ Len(attempted) = count
        /\ \A k \in 1..Len(outputs) : k <= Len(attempted) /\ outputs[k][1] = attempted[k]

\* C5 witness: two outputs of three candidates, produced in an order that is
\* not the input order.
C5_Witness ==
    /\ pc = "done"
    /\ nFailed = 0
    /\ N = 3
    /\ count = 2
    /\ << outputs[1][1], outputs[2][1] >> = << 2, 0 >>

\* C6 (as claimed): a run in which every attempt failed has ended with zero
\* outputs and one shortfall report, made after all candidates were attempted.
C6_AllFailReportsShortfall ==
    (Ended /\ Len(attempted) > 0 /\ nFailed = Len(attempted)) =>
        /\ outputs = << >>
        /\ AllAttempted
        /\ exitMsg = "Shortfall"
        /\ reports = 1

\* C7: the number of outputs never exceeds K, and every step that starts a
\* capture attempt is taken with fewer than K successes recorded.
C7_StopsAtK ==
    /\ [](Len(outputs) <= count /\ successes <= count)
    /\ [][ attempted' # attempted => successes < count ]_vars

\* C7 witness: the run ended with K successes while a candidate was never
\* visited.
C7_Witness ==
    /\ pc = "done"
    /\ successes = count
    /\ pos < N
    /\ Len(attempted) < N

\* C8: an image request is issued only for a coordinate whose metadata status
\* was "OK"; a metadata request that ends otherwise fails the attempt and
\* issues no image request, a non-OK status failing it as UnavailableImagery.
C8_ImageOnlyAfterOK ==
    /\ [](imageReq \subseteq metaOK /\ metaOK \subseteq metaReq)
    /\ [][ (pc = "meta" /\ pc' # "meta" /\ idx \notin metaOK') =>
              (imageReq' = imageReq /\ nFailed' = nFailed + 1 /\ pc' # "image") ]_vars
    /\ [](lastErr = "UnavailableImagery" => (idx \in metaReq /\ idx \notin imageReq))

\* C8 witness: one coordinate's image was requested after an "OK" and another
\* coordinate's attempt failed as UnavailableImagery without an image request.
C8_Witness ==
    /\ lastErr = "UnavailableImagery"
    /\ imageReq # {}
    /\ idx \in metaReq \ imageReq

\* a JavaScript number that is an integer within lo..hi
Within(x, lo, hi) == x.k = "fin" /\ lo <= x.v /\ x.v <= hi

\* C9 (as claimed): for every requested size and every scale hint, present or
\* absent, both dimensions of the resolved logical size are numbers from 1
\* to 640.
C9_LogicalWithinCap ==
    pc = "sized" =>
        /\ Within(resolved.logical.width, 1, Cap)
        /\ Within(resolved.logical.height, 1, Cap)

\* C10 (as claimed): for every requested size with neither dimension above
\* 640 and no scale hint, the resolved scale is 1 and the logical size is the
\* requested size.
C10_SmallSizeUnchanged ==
    ( /\ pc = "sized"
      /\ scaleArg = Undefined
      /\ ~Gt(requested.width, Cap)
      /\ ~Gt(requested.height, Cap) ) =>
        (resolved.scale = 1 /\ resolved.logical = requested)

\* C10 (amended): for every requested size whose dimensions are both integers
\* from 1 to 640 and no scale hint, the resolved scale is 1 and the logical
\* size is the requested size.
C10_SmallPositiveSizeUnchanged ==
    ( /\ pc = "sized"
      /\ scaleArg = Undefined
      /\ Within(requested.width, 1, Cap)
      /\ Within(requested.height, 1, Cap) ) =>
        (resolved.scale = 1 /\ resolved.logical = requested)

\* C10 witness: 640x638 requested without a hint is resolved to scale 1 and
\* logical 640x638.
C10_Witness ==
    /\ pc = "sized"
    /\ scaleArg = Undefined
    /\ requested = Size(Num(Cap), Num(Cap - 2))
    /\ resolved = [scale |-> 1, logical |-> requested]

\* C11: the resolved scale is always 1 or 2; with a finite hint it is 1 when
\* the hint is exactly 1 and 2 for every other finite value; without a
\* finite hint it is 2 when either requested dimension exceeds 640, else 1.
C11_ScaleSelection ==
    pc = "sized" =>
        /\ resolved.scale \in {1, 2}
        /\ IsFinite(scaleArg) => resolved.scale = (IF scaleArg = Num(1) THEN 1 ELSE 2)
        /\ ~IsFinite(scaleArg) =>
              resolved.scale = (IF Gt(requested.width, Cap) \/ Gt(requested.height, Cap)
                                  THEN 2 ELSE 1)

\* C11 witness: a hint of 3 on a size within the cap collapses to scale 2.
C11_Witness ==
    /\ pc = "sized"
    /\ scaleArg = Num(3)
    /\ requested = Size(Num(Cap), Num(Cap))
    /\ resolved.scale = 2

\* C12 (as claimed): when --scale is omitted, the size resolution is given no
\* hint, and the scale of the image request is the one inferred from the
\* requested size (2 when a dimension exceeds 640, else 1).
C12_OmittedScaleIsInferred ==
    (pc = "image" /\ argScale = Undefined) =>
        /\ scaleArg = Undefined
        /\ resolved.scale = (IF Gt(requested.width, Cap) \/ Gt(requested.height, Cap)
                               THEN 2 ELSE 1)

\* a JavaScript number that is a positive integer
Positive(x) == x.k = "fin" /\ x.v >= 1

\* the larger of two integers
MaxOf(a, b) == IF a >= b THEN a ELSE b

\* the logical size the cap rule gives in exact arithmetic, for positive
\* integer dimensions w and h: floor(w/scale) and floor(h/scale), both
\* multiplied by 640 over the larger of the two when either exceeds 640 and
\* floored, each at least 1
ExactLogical(w, h, scale) ==
    LET lw == w \div scale
        lh == h \div scale
        m == MaxOf(lw, lh)
        cw == IF m > Cap THEN (lw * Cap) \div m ELSE lw
        ch == IF m > Cap THEN (lh * Cap) \div m ELSE lh
    IN  Size(Num(MaxOf(1, cw)), Num(MaxOf(1, ch)))

\* C13 (as claimed): for positive requested dimensions the logical size is
\* floor(requested/scale) per axis, both multiplied by min(640/logicalWidth,
\* 640/logicalHeight) and floored when either exceeds 640; 3840x2160 without
\* a hint gives scale 2 and 640x360, and 1920x1080 with hint 1 gives 640x360.
C13_CapEnforcement ==
    ( /\ pc = "sized"
      /\ Positive(requested.width)
      /\ Positive(requested.height) ) =>
        /\ resolved.logical = ExactLogical(requested.width.v, requested.height.v, resolved.scale)
        /\ (requested = Size(Num(3840), Num(2160)) /\ scaleArg = Undefined) =>
              resolved = [scale |-> 2, logical |-> Size(Num(Cap), Num(360))]
        /\ (requested = Size(Num(1920), Num(1080)) /\ scaleArg = Num(1)) =>
              resolved = [scale |-> 1, logical |-> Size(Num(Cap), Num(360))]

\* the positions of captureStreetViewWithBrowser between launch and return
BrowserStages ==
    { "b_page", "b_goto", "b_consent", "b_buttons", "b_settle", "b_ready", "b_shot",
      "b_close" }

\* C14: in a browser capture the surface is released on every exit path:
\* outside the call no browser is open (one on which close() was not called),
\* and every step that leaves the call with a browser launched, returning or
\* throwing, whatever stage failed, is the finally block calling close().
C14_SurfaceAlwaysReleased ==
    /\ [](pc \notin BrowserStages => ~browserOpen)
    /\ [][ (browserOpen /\ pc' \notin BrowserStages) =>
              (pc = "b_close" /\ ~browserOpen') ]_vars

\* C14 witness: a capture on the interactive map URL dismissed the consent
\* dialog, failed later with a render error, and was left with no browser open.
C14_Witness ==
    /\ pc = "loop"
    /\ lastErr = "RenderError"
    /\ target = "pano"
    /\ clicks = 1
    /\ ~browserOpen

\* an item with numeric latitude and longitude, one of them out of range
OutOfRange(it) ==
    /\ it.shape = "coords"
    /\ it.lat.k = "fin"
    /\ it.lng.k = "fin"
    /\ (it.lat.v < -90 \/ it.lat.v > 90 \/ it.lng.v < -180 \/ it.lng.v > 180)

\* no capture attempt was begun and no network call or browser launch made
NothingAcquired ==
    /\ attempted = << >>
    /\ metaReq = {}
    /\ imageReq = {}
    /\ target = "none"
    /\ ~browserOpen
    /\ outputs = << >>

\* C15: invalid input is rejected before any acquisition: an out-of-range
\* coordinate ends the run as InvalidCoordinate as soon as it is seen; a
\* missing key or a malformed map file never gets past the start-up; a run
\* rejected at start-up has begun no attempt and made no network call; and
\* any attempt is begun only with a key and a fully validated map file.
C15_InvalidInputRejectedFirst ==
    /\ [](OutOfRange(item) => (pc = "exited" /\ exitMsg = "InvalidCoordinate"))
    /\ []((~hasKey \/ mapState # "array") => pc \in {"start", "readmap", "exited"})
    /\ [](Rejected => NothingAcquired)
    /\ [](~NothingAcquired => (hasKey /\ mapState = "array" /\ itemsLeft = 0))

\* C15 witness: the map file's third item has latitude 91 after two valid
\* coordinates; the run ended as InvalidCoordinate with nothing acquired.
C15_Witness ==
    /\ pc = "exited"
    /\ exitMsg = "InvalidCoordinate"
    /\ item = Coord(Num(91), Num(0))
    /\ N = 2
    /\ NothingAcquired

\* C16 (as claimed): the step that reaches the screenshot matches the target
\* that was built: with the interactive map URL it comes from readiness
\* detection, after consent dismissal was tried; with the direct viewer URL
\* it comes from the settle delay alone, consent handling untouched.
C16_HandlingMatchesTarget ==
    [][ (pc # "b_shot" /\ pc' = "b_shot") =>
           ( /\ target = "pano" => (pc = "b_ready" /\ probe > 0)
             /\ target = "embed" => (pc = "b_settle" /\ probe = 0 /\ clicks = 0) ) ]_vars

\* the positions between the end of navigation and the screenshot
AfterNavigation == { "b_consent", "b_buttons", "b_settle", "b_ready" }

\* C17: once navigation has succeeded, no step of consent handling, the
\* settle delay or readiness detection fails the attempt or throws: each
\* leads on towards the screenshot; at most one dismissal click succeeds in
\* an attempt, and the step in which it does ends consent probing.
C17_ScreenshotAlwaysAttempted ==
    /\ [][ (pc \in AfterNavigation) =>
              ( /\ pc' \in AfterNavigation \cup {"b_shot"}
                /\ pendingErr' = "none"
                /\ nFailed' = nFailed
                /\ exitMsg' = "none" ) ]_vars
    /\ [](clicks <= 1)
    /\ [][ clicks' > clicks =>
              (pc \in {"b_consent", "b_buttons"} /\ pc' = "b_settle") ]_vars

\* C17 witness: two selector probes failed, the third dismissed the dialog,
\* probing stopped there and the capture returned its screenshot.
C17_Witness ==
    /\ pc = "write"
    /\ ~useEmbed
    /\ probe = 3
    /\ clicks = 1

\* s holds each of 0..n-1 exactly once
IsPermutation(s, n) ==
    /\ Len(s) = n
    /\ \A c \in 0..(n - 1) : Cardinality({ i \in 1..n : s[i] = c }) = 1

\* C18: for every length and every sequence of draws, the array shuffleIndices
\* works on, and so the one it returns, is a permutation of 0..N-1.
C18_ShuffleIsPermutation == IsPermutation(indices, N)

\* C18 witness: shuffleIndices(4) returned the reversed order.
C18_Witness ==
    /\ pc = "loop"
    /\ N = 4
    /\ indices = << 3, 2, 1, 0 >>

\* s is an initial segment of t
IsPrefix(s, t) == Len(s) <= Len(t) /\ SubSeq(t, 1, Len(s)) = s

\* C19: the output list's length equals the success counter in every state;
\* no step decreases the counter or does anything to the list but append;
\* and a step that records a failed attempt changes neither.
C19_CounterAndListMoveTogether ==
    /\ [](Len(outputs) = successes)
    /\ [][ successes' >= successes /\ IsPrefix(outputs, outputs') ]_vars
    /\ [][ nFailed' # nFailed => (successes' = successes /\ outputs' = outputs) ]_vars

\* C19 witness: the second of three attempts failed between two successes.
C19_Witness ==
    /\ pc = "done"
    /\ Len(attempted) = 3
    /\ nFailed = 1
    /\ successes = 2
    /\ outputs[1][1] = attempted[1]
    /\ outputs[2][1] = attempted[3]

\* C20: with a name prefix the k-th output of a run is named <prefix>_k, so
\* the names are numbered from 1 without gaps and pairwise distinct, however
\* many attempts failed in between.
C20_PrefixedNamesAreNumbered ==
    hasPrefix =>
        /\ \A k \in 1..Len(outputs) : outputs[k][2] = << "prefix", k >>
        /\ \A j, k \in 1..Len(outputs) : j # k => outputs[j][2] # outputs[k][2]

\* C20 witness: the first attempt failed, the next two succeeded and were
\* named <prefix>_1 and <prefix>_2.
C20_Witness ==
    /\ hasPrefix
    /\ Len(attempted) = 3
    /\ nFailed = 1
    /\ Len(outputs) = 2
    /\ outputs[1] = << attempted[2], << "prefix", 1 >> >>
    /\ outputs[2] = << attempted[3], << "prefix", 2 >> >>

\* the terminal states of the sampling loop
FullySatisfied == pc = "done" /\ successes >= count
Shortfall == pc = "exited" /\ exitMsg = "Shortfall" /\ successes < count

\* C21 (as claimed): never more capture attempts are begun than there are
\* candidates, and every run that gets past its start-up in a runtime with
\* the image library installed, each of its steps ending, reaches a terminal
\* state of the sampling loop: fully satisfied, or shortfall.
C21_RunTerminates ==
    /\ [](Len(attempted) <= N)
    /\ sharpInstalled => <>(Rejected \/ FullySatisfied \/ Shortfall)
====
